---------------------------- MODULE Spec2Model ----------------------------
(***************************************************************************)
(* A model of the todo command-line program (src/src/lib.rs).              *)
(*                                                                         *)
(* The program keeps one SQLite table,                                     *)
(*     todos (id INTEGER PRIMARY KEY, body TEXT NOT NULL, incomplete BOOL) *)
(* in the file todos.db.  Every invocation opens the file, runs one        *)
(* command of `Commands` and exits.  The table is modelled as the set of   *)
(* its rows; SQL statements are modelled by what SQLite does with them:    *)
(*   - INSERT without an id gives the row the id max(id) + 1 (1 in an      *)
(*     empty table), because the column is INTEGER PRIMARY KEY without     *)
(*     AUTOINCREMENT;                                                      *)
(*   - SELECT * without ORDER BY walks the table in rowid (= id) order;    *)
(*   - UPDATE / DELETE touch every row the WHERE clause matches and        *)
(*     succeed when it matches none.                                       *)
(* Every SQL statement is taken to succeed: the `?` error paths are        *)
(* failures of the storage engine.                                         *)
(*                                                                         *)
(* Two specifications:                                                     *)
(*   Spec     the program: commands of run(), targets chosen through       *)
(*            multi_find / fuzzy_find from the current table;              *)
(*   SpecLib  the functions rm, edit, toggle called directly with          *)
(*            arbitrary Todo records, as the unit tests call them.         *)
(***************************************************************************)
EXTENDS Integers, Sequences, FiniteSets, TLC

(***************************************************************************)
(* Bounds of the model.                                                    *)
(***************************************************************************)
\* the largest number of rows the table holds
MaxRows == 3
\* the largest id an INSERT may assign
MaxId == 3
\* the largest number of bodies in one `add` command
MaxAdd == 2
\* the largest number of target records in one direct call of rm / toggle
MaxTargets == 2
\* the largest number of rows, and the largest id, of the table of a direct call
LibMaxRows == 2
LibMaxId == 2

\* The texts a user can type: the empty text, and two others.
Bodies == {"", "a", "b"}

VARIABLES
  todos_db,      \* the rows of table todos in todos.db
  prev,          \* the rows before the last command
  everAssigned,  \* history: every id an INSERT has assigned so far
  cmd,           \* the last command and its inputs
  res,           \* how the last command ended: "Ok" or "Panic"
  listed         \* what the last `list` command printed, as Todo records

vars == <<todos_db, prev, everAssigned, cmd, res, listed>>

(***************************************************************************)
(* Values                                                                  *)
(***************************************************************************)
\* struct Todo { body, id, incomplete }
Todo(id, body, incomplete) == [id |-> id, body |-> body, incomplete |-> incomplete]

\* Option<String>, the result of dialoguer's Editor::edit
None == [some |-> FALSE, val |-> ""]

Some(s) == [some |-> TRUE, val |-> s]

\* What the editor can return: None when the text was not saved, else the
\* saved text, which may be empty or the text it started from.
EditorResults == {None} \cup {Some(s) : s \in Bodies}

Ids(rows) == {r.id : r \in rows}

MaxOf(S) == CHOOSE x \in S : \A y \in S : y <= x

\* The ids of a sequence of target records
TargetIds(targets) == {targets[i].id : i \in 1..Len(targets)}

(***************************************************************************)
(* SQL                                                                     *)
(***************************************************************************)
\* CREATE TABLE IF NOT EXISTS todos (...): the table once created is left alone
create_db(conn) == conn

\* The rowid SQLite gives a row inserted without an id
NextRowid(conn) == IF conn = {} THEN 1 ELSE MaxOf(Ids(conn)) + 1

\* INSERT INTO todos (body, incomplete) VALUES (?1, true)
Insert(body, conn) == conn \cup {Todo(NextRowid(conn), body, TRUE)}

\* The rows in rowid order, the order of a SELECT without ORDER BY
RECURSIVE RowidOrder(_)
RowidOrder(rows) ==
  IF rows = {} THEN <<>>
  ELSE LET first == CHOOSE r \in rows : \A q \in rows : r.id <= q.id
       IN  <<first>> \o RowidOrder(rows \ {first})

\* The WHERE clause of the two queries of the program
Where(query, row) ==
  IF query = "SELECT * FROM todos where incomplete;" THEN row.incomplete ELSE TRUE

\* fn collect_todos(query, conn) -> Vec<Todo>
collect_todos(query, conn) == RowidOrder({r \in conn : Where(query, r)})

collect_todos_all(conn) == collect_todos("SELECT * FROM todos;", conn)

\* A plausible slip: the query of collect_todos_incomplete lacks its WHERE clause
collect_todos_incomplete_NoWhere(conn) == collect_todos("SELECT * FROM todos;", conn)

collect_todos_incomplete(conn) == collect_todos("SELECT * FROM todos where incomplete;", conn)


(***************************************************************************)
(* The interactive selectors                                               *)
(***************************************************************************)
\* The indices a MultiSelect returns: the checked items, in ascending order
RECURSIVE Ascending(_)
Ascending(S) ==
  IF S = {} THEN <<>>
  ELSE LET least == CHOOSE x \in S : \A y \in S : x <= y
       IN  <<least>> \o Ascending(S \ {least})

\* fn fuzzy_find: the record of the item picked, target_id an index into the
\* list of all todos (indices count from 1 here, from 0 in the source)
fuzzy_find(target_id, conn) == collect_todos_all(conn)[target_id]

\* fn multi_find: the records of the items checked, by direct indexing
multi_find(target_ids, conn) ==
  [k \in 1..Len(target_ids) |-> collect_todos_all(conn)[target_ids[k]]]

(***************************************************************************)
(* The five functions of the store                                         *)
(***************************************************************************)
\* A plausible slip: the loop walks the arguments from the last to the first
RECURSIVE add_LastFirst(_, _)
add_LastFirst(todos, conn) ==
  IF todos = <<>> THEN conn
  ELSE add_LastFirst(SubSeq(todos, 1, Len(todos) - 1), Insert(todos[Len(todos)], conn))

\* fn add, the branch with arguments: one INSERT per body, in argument order
RECURSIVE add(_, _)
add(todos, conn) ==
  IF todos = <<>> THEN conn
  ELSE add(Tail(todos), Insert(Head(todos), conn))

\* fn add, the branch without arguments: the editor's text, if any, is inserted
add_editor(new, conn) == IF new.some THEN Insert(new.val, conn) ELSE conn

\* delete from todos where body is ?1, with ?1 = target.body
DeleteWhereBody(target, conn) == {r \in conn : r.body # target.body}

\* fn rm: one DELETE per target
RECURSIVE rm(_, _)
rm(targets, conn) ==
  IF targets = <<>> THEN conn
  ELSE rm(Tail(targets), DeleteWhereBody(Head(targets), conn))

\* A plausible slip: the UPDATE matches rows by body, as the DELETE of rm does
edit_ByBody(target, new, conn) ==
  {IF r.body = target.body THEN [r EXCEPT !.body = new] ELSE r : r \in conn}

\* fn edit: UPDATE todos SET body = ?1 where id is ?2, with ?2 = target.id
edit(target, new, conn) ==
  {IF r.id = target.id THEN [r EXCEPT !.body = new] ELSE r : r \in conn}

\* A plausible slip: the new flag is always false ("mark done") instead of flipped
ToggleOne_MarkDone(target, conn) ==
  {IF r.id = target.id THEN [r EXCEPT !.incomplete = FALSE] ELSE r : r \in conn}

\* A plausible slip: the UPDATE matches rows by body, as the DELETE of rm does
ToggleOne_ByBody(target, conn) ==
  LET flipped == IF target.incomplete THEN FALSE ELSE TRUE
  IN  {IF r.body = target.body THEN [r EXCEPT !.incomplete = flipped] ELSE r : r \in conn}

\* The body of toggle's loop: flipped is computed from the target record, then
\* UPDATE todos SET incomplete = ?1 where id is ?2
ToggleOne(target, conn) ==
  LET flipped == IF target.incomplete THEN FALSE ELSE TRUE
  IN  {IF r.id = target.id THEN [r EXCEPT !.incomplete = flipped] ELSE r : r \in conn}

\* fn toggle: one UPDATE per target
RECURSIVE toggle(_, _)
toggle(targets, conn) ==
  IF targets = <<>> THEN conn
  ELSE toggle(Tail(targets), ToggleOne(Head(targets), conn))

\* fn list: the todos printed, numbered by position, the completed ones struck
\* through (numbering and styling are derived from the records)
list(incomplete, conn) ==
  IF incomplete THEN collect_todos_incomplete(conn) ELSE collect_todos_all(conn)

(***************************************************************************)
(* Commands                                                                *)
(***************************************************************************)
Command(name, todos, sel, targets, new, incomplete) ==
  [name |-> name, todos |-> todos, sel |-> sel, targets |-> targets,
   new |-> new, incomplete |-> incomplete]

NoCommand == Command("none", <<>>, <<>>, <<>>, None, FALSE)

\* The argument lists of `add <text...>`: 1 to MaxAdd bodies
AddArgs == UNION {[1..n -> Bodies] : n \in 1..MaxAdd}

\* The model's bounds on the table: at most MaxRows rows, ids up to MaxId
WithinBounds(conn) ==
  /\ Cardinality(conn) <= MaxRows
  /\ \A r \in conn : r.id <= MaxId

Init ==
  /\ todos_db = create_db({})
  /\ prev = {}
  /\ everAssigned = {}
  /\ cmd = NoCommand
  /\ res = "Ok"
  /\ listed = <<>>

\* What a command that stops in a panic leaves behind: the table untouched
Panics(c) ==
  /\ todos_db' = todos_db
  /\ prev' = todos_db
  /\ cmd' = c
  /\ res' = "Panic"
  /\ listed' = <<>>
  /\ UNCHANGED everAssigned

\* What a command that ends normally leaves behind
Ends(c, conn) ==
  /\ todos_db' = conn
  /\ prev' = todos_db
  /\ everAssigned' = everAssigned \cup (Ids(conn) \ Ids(todos_db))
  /\ cmd' = c
  /\ res' = "Ok"

\* Commands::Add { todos } with arguments
Commands_Add ==
  \E todos \in AddArgs :
    LET conn == add(todos, create_db(todos_db))
    IN  /\ WithinBounds(conn)
        /\ Ends(Command("add", todos, <<>>, <<>>, None, FALSE), conn)
        /\ listed' = <<>>

\* Commands::Add { todos } without arguments: the text comes from the editor
Commands_Add_Editor ==
  \E new \in EditorResults :
    LET conn == add_editor(new, create_db(todos_db))
    IN  /\ WithinBounds(conn)
        /\ Ends(Command("add", <<>>, <<>>, <<>>, new, FALSE), conn)
        /\ listed' = <<>>

\* Commands::Rm: MultiSelect refuses an empty list of items and multi_find
\* unwraps its error; otherwise the checked items are removed
Commands_Rm ==
  LET conn == create_db(todos_db)
  IN  \/ /\ conn = {}
         /\ Panics(Command("rm", <<>>, <<>>, <<>>, None, FALSE))
      \/ /\ conn # {}
         /\ \E S \in SUBSET (1..Cardinality(conn)) :
              LET targets == multi_find(Ascending(S), conn)
              IN  /\ Ends(Command("rm", <<>>, Ascending(S), targets, None, FALSE),
                          rm(targets, conn))
                  /\ listed' = <<>>

\* Commands::Toggle: as Rm, with toggle
Commands_Toggle ==
  LET conn == create_db(todos_db)
  IN  \/ /\ conn = {}
         /\ Panics(Command("toggle", <<>>, <<>>, <<>>, None, FALSE))
      \/ /\ conn # {}
         /\ \E S \in SUBSET (1..Cardinality(conn)) :
              LET targets == multi_find(Ascending(S), conn)
              IN  /\ Ends(Command("toggle", <<>>, Ascending(S), targets, None, FALSE),
                          toggle(targets, conn))
                  /\ listed' = <<>>

\* Commands::Edit: fuzzy_find picks one item (none can be picked from an empty
\* list: the command panics), the editor is opened on its body, and the text
\* it returns, if any, replaces the body
Commands_Edit ==
  LET conn == create_db(todos_db)
  IN  \/ /\ conn = {}
         /\ Panics(Command("edit", <<>>, <<>>, <<>>, None, FALSE))
      \/ /\ conn # {}
         /\ \E target_id \in 1..Cardinality(conn), new \in EditorResults :
              LET target == fuzzy_find(target_id, conn)
              IN  /\ Ends(Command("edit", <<>>, <<target_id>>, <<target>>, new, FALSE),
                          IF new.some THEN edit(target, new.val, conn) ELSE conn)
                  /\ listed' = <<>>

\* Commands::List { incomplete }
Commands_List ==
  \E incomplete \in BOOLEAN :
    LET conn == create_db(todos_db)
    IN  /\ Ends(Command("list", <<>>, <<>>, <<>>, None, incomplete), conn)
        /\ listed' = list(incomplete, conn)

\* Commands::Clean falls to the `_ => {}` arm of run
Commands_Clean ==
  /\ Ends(Command("clean", <<>>, <<>>, <<>>, None, FALSE), create_db(todos_db))
  /\ listed' = <<>>

\* fn run: one command per invocation
Next ==
  \/ Commands_Add
  \/ Commands_Add_Editor
  \/ Commands_Rm
  \/ Commands_Toggle
  \/ Commands_Edit
  \/ Commands_List
  \/ Commands_Clean

Spec == Init /\ [][Next]_vars

(***************************************************************************)
(* The functions rm, edit and toggle called directly, as the unit tests    *)
(* call them: the target records are any records, whatever the table       *)
(* holds.  One call is made on a table the program can have built: any set *)
(* of rows with distinct ids is reached by add, rm, edit and toggle.       *)
(***************************************************************************)
\* The bodies of the rows and of the target records of a direct call
LibBodies == {"a", "b"}

LibRows == {Todo(id, body, incomplete) :
              id \in 1..LibMaxId, body \in LibBodies, incomplete \in BOOLEAN}

LibTables == {t \in SUBSET LibRows :
                /\ Cardinality(t) <= LibMaxRows
                /\ \A r \in t, q \in t : r.id = q.id => r = q}

TargetLists == UNION {[1..n -> LibRows] : n \in 1..MaxTargets}

InitLib ==
  /\ todos_db \in LibTables
  /\ prev = todos_db
  /\ everAssigned = (IF todos_db = {} THEN {} ELSE 1..MaxOf(Ids(todos_db)))
  /\ cmd = NoCommand
  /\ res = "Ok"
  /\ listed = <<>>

Call_rm ==
  /\ cmd = NoCommand
  /\ \E targets \in TargetLists :
       /\ Ends(Command("rm", <<>>, <<>>, targets, None, FALSE), rm(targets, todos_db))
       /\ listed' = <<>>

Call_edit ==
  /\ cmd = NoCommand
  /\ \E target \in LibRows, new \in Bodies :
       /\ Ends(Command("edit", <<>>, <<>>, <<target>>, Some(new), FALSE),
               edit(target, new, todos_db))
       /\ listed' = <<>>

Call_toggle ==
  /\ cmd = NoCommand
  /\ \E targets \in TargetLists :
       /\ Ends(Command("toggle", <<>>, <<>>, targets, None, FALSE),
               toggle(targets, todos_db))
       /\ listed' = <<>>

NextLib ==
  \/ Call_rm
  \/ Call_edit
  \/ Call_toggle

SpecLib == InitLib /\ [][NextLib]_vars

(***************************************************************************)
(* Properties                                                              *)
(***************************************************************************)
\* The row of a table with a given id
RowOf(rows, id) == CHOOSE r \in rows : r.id = id

\* The last record of a target list that carries a given id
LastTarget(targets, id) ==
  targets[MaxOf({i \in 1..Len(targets) : targets[i].id = id})]

NotTargeted(t) == t.id \notin TargetIds(cmd.targets)

IsIncomplete(t) == t.incomplete

\* C1: after the rm command, the list of all todos is the list before the
\* command without the tasks whose id is among the targets: those are gone,
\* and every other task is still there, unchanged and in the same order.
C1_RmDeletesExactlyTargets ==
  (cmd.name = "rm" /\ res = "Ok") =>
    collect_todos_all(todos_db) = SelectSeq(collect_todos_all(prev), NotTargeted)

\* C2: no two live tasks share an id, and every id an INSERT assigns is
\* greater than every id assigned before, the ids of removed tasks included.
C2_IdsNeverReused ==
  [][/\ \A r \in todos_db', q \in todos_db' : r.id = q.id => r = q
     /\ \A r \in todos_db' :
          r.id \notin Ids(todos_db) => \A i \in everAssigned : i < r.id]_vars

\* C3: rm, edit and toggle called with target ids that the table does not
\* hold end with a NotFound error and leave the table as it was.
C3_AbsentIdIsNotFound ==
  ( /\ cmd.name \in {"rm", "edit", "toggle"}
    /\ cmd.targets # <<>>
    /\ \A i \in 1..Len(cmd.targets) : cmd.targets[i].id \notin Ids(prev) )
  => (res = "NotFound" /\ todos_db = prev)

\* C4: after add with N >= 1 bodies, the list of all todos is the list
\* before the command followed by N new tasks, in argument order, each with
\* the body given, incomplete, and with an id that no task of the list
\* before has (and no other new task has); from an empty table the ids are
\* 1..N.
C4_AddAppendsInOrder ==
  (cmd.name = "add" /\ cmd.todos # <<>> /\ res = "Ok") =>
    LET old == collect_todos_all(prev)
        new == collect_todos_all(todos_db)
        N   == Len(cmd.todos)
    IN  /\ Len(new) = Len(old) + N
        /\ SubSeq(new, 1, Len(old)) = old
        /\ \A i \in 1..N :
             /\ new[Len(old) + i].body = cmd.todos[i]
             /\ new[Len(old) + i].incomplete = TRUE
             /\ new[Len(old) + i].id \notin Ids(prev)
             /\ prev = {} => new[Len(old) + i].id = i
        /\ \A i \in 1..Len(new), j \in 1..Len(new) : new[i].id = new[j].id => i = j

\* An add of two different bodies to a table that holds tasks, one of them completed
C4_Witness ==
  /\ cmd.name = "add" /\ res = "Ok"
  /\ Len(cmd.todos) = 2 /\ cmd.todos[1] # cmd.todos[2]
  /\ \E r \in prev : ~r.incomplete

\* C5: a toggle command followed at once by a toggle command with the same
\* selection leaves the table as it was before the first: the flags are back,
\* ids, bodies and all other tasks untouched; and the first of the two did
\* flip the flag of every task selected.
C5_ToggleTwiceRestores ==
  [][/\ (cmd'.name = "toggle" /\ res' = "Ok") =>
          \A i \in 1..Len(cmd'.targets) :
            RowOf(todos_db', cmd'.targets[i].id).incomplete
              = ~RowOf(todos_db, cmd'.targets[i].id).incomplete
     /\ ( /\ cmd.name = "toggle" /\ res = "Ok"
          /\ cmd'.name = "toggle" /\ res' = "Ok"
          /\ cmd'.sel = cmd.sel )
        => todos_db' = prev]_vars

\* A toggle command that sets a completed task back to incomplete, beside a
\* task it does not select
C5_Witness ==
  /\ cmd.name = "toggle" /\ res = "Ok"
  /\ \E i \in 1..Len(cmd.targets) :
       /\ ~cmd.targets[i].incomplete
       /\ RowOf(todos_db, cmd.targets[i].id).incomplete
  /\ \E r \in prev : NotTargeted(r)

\* C6: no task stored has an empty body, and an edit whose new body is
\* empty ends with InvalidInput and leaves the table as it was.
C6_BodyNeverEmpty ==
  /\ \A r \in todos_db : r.body # ""
  /\ (cmd.name = "edit" /\ cmd.new = Some("")) =>
       (res = "InvalidInput" /\ todos_db = prev)

\* C7: after an edit command whose editor returned a text, the list of all
\* todos is the list before the command with the body of the task picked
\* replaced by the text: same length, same positions, same ids and flags,
\* every other task as it was.
C7_EditChangesOnlyBody ==
  (cmd.name = "edit" /\ res = "Ok" /\ cmd.new.some) =>
    LET old == collect_todos_all(prev)
        new == collect_todos_all(todos_db)
    IN  /\ Len(new) = Len(old)
        /\ \A i \in 1..Len(old) :
             new[i] = IF i = cmd.sel[1] THEN [old[i] EXCEPT !.body = cmd.new.val]
                      ELSE old[i]

\* An edit to a different text of a task whose old body another task has too
C7_Witness ==
  /\ cmd.name = "edit" /\ res = "Ok" /\ cmd.new.some
  /\ cmd.new.val # cmd.targets[1].body
  /\ \E r \in prev : r.id # cmd.targets[1].id /\ r.body = cmd.targets[1].body

\* C8: list --incomplete prints exactly the tasks of the list of all todos
\* that are incomplete, in the order of that list, and ends without error
\* (also when there are none).
C8_ListIncompleteIsFilter ==
  (cmd.name = "list" /\ cmd.incomplete) =>
    /\ listed = SelectSeq(collect_todos_all(todos_db), IsIncomplete)
    /\ res = "Ok"

\* A list --incomplete that prints some tasks of the table and leaves out others
C8_Witness ==
  /\ cmd.name = "list" /\ cmd.incomplete
  /\ listed # <<>>
  /\ Len(listed) < Cardinality(todos_db)

\* C9: after the clean command no completed task is left and every
\* incomplete task is still there, unchanged.
C9_CleanRemovesCompleted ==
  cmd.name = "clean" => todos_db = {r \in prev : r.incomplete}

\* C10, as claimed: toggle(targets) flips the stored flag of every row whose
\* id a target carries, whatever else the target record carries, and leaves
\* bodies, ids and the other rows alone.
C10_ToggleFlipsStoredFlag ==
  (cmd.name = "toggle" /\ res = "Ok") =>
    todos_db = {IF NotTargeted(r) THEN r ELSE [r EXCEPT !.incomplete = ~r.incomplete] :
                  r \in prev}

\* C10, as amended: toggle(targets) finds rows by id alone; the flag of a row
\* whose id a target carries becomes the negation of the flag carried by the
\* (last) target record with that id, whatever body the record carries;
\* bodies, ids and the other rows are left alone.
C10_ToggleNegatesTargetFlag ==
  (cmd.name = "toggle" /\ res = "Ok") =>
    todos_db = {IF NotTargeted(r) THEN r
                ELSE [r EXCEPT !.incomplete = ~LastTarget(cmd.targets, r.id).incomplete] :
                  r \in prev}

\* A direct toggle whose target carries the id of a row and another body,
\* beside a row it does not target, and which changes the table
C10_Witness ==
  /\ cmd.name = "toggle" /\ res = "Ok"
  /\ \E i \in 1..Len(cmd.targets) :
       /\ cmd.targets[i].id \in Ids(prev)
       /\ cmd.targets[i].body # RowOf(prev, cmd.targets[i].id).body
  /\ \E r \in prev : NotTargeted(r)
  /\ todos_db # prev

=============================================================================
